---- MODULE Spec2Model ----
(***************************************************************************)
(* Connection supervisor (src/src/connection.ts), the handle capture of    *)
(* the tool registration (src/src/index.ts), the health assessment of      *)
(* src/src/tools/stream-health.ts and the timer-against-source wait of     *)
(* nats_subscribe (src/src/tools/subscribe.ts) and nats_kv_watch           *)
(* (src/src/tools/kv.ts).                                                  *)
(*                                                                         *)
(* The runtime is a single-threaded event loop: every action below is one  *)
(* run-to-completion segment between two suspension points (await).        *)
(***************************************************************************)
EXTENDS Integers, Sequences, FiniteSets, TLC

\* ---- bounds of the model ------------------------------------------------
MaxSessions   == 2   \* sessions connect() may hand out
MaxReconnects == 2   \* transport-level reconnects over the whole run
MaxQueue      == 1   \* status notifications queued per session iterator
MaxConsumers  == 2   \* consumers of the stream nats_stream_health inspects
MaxCount      == 1   \* largest pending / ack_pending / lag of a consumer
MaxPublished  == 101 \* messages the server routes while one wait is observed
MaxUnheard    == 2   \* of these, messages no subscription of the call takes
MaxCallers    == 2   \* nats_kv_create calls in flight together
MaxBuckets    == 2   \* bucket names these calls are made with

\* ---- constants of the program ----------------------------------------------
\* subscribe.ts 8, kv.ts 319
MAX_TIMEOUT_MS == 30000

\* subscribe.ts 9
MAX_MESSAGES == 100

\* ---- values ---------------------------------------------------------------
Sessions == 1..MaxSessions

\* the nats_kv_create calls in flight together, and the bucket names they
\* are made with
Callers == 1..MaxCallers
Buckets == 1..MaxBuckets
NoBucket == 0

\* state.nc === null
NullNc == 0

\* state.lastReconnectTime === null
NullTime == 0

\* A derived client object.  sess is the session it was built from and gen
\* the generation that was current when its construction started; the
\* source keeps neither on the object, they identify the object here.
Handle(k, s, g) == [kind |-> k, sess |-> s, gen |-> g]

\* state.js === null / state.jsm === null
NullHandle == Handle("null", 0, 0)

\* status.type of a notification, as far as handleStatusEvents tells the
\* types apart: "other" is Events.Update, Events.LDM, Events.Error and every
\* type of the default branch, whose cases differ only in the text they log
EventTypes == {"disconnect", "reconnect", "other"}

OtherEvents == EventTypes \ {"disconnect", "reconnect"}

\* What an accessor call produced: kind is "none" (never called), "bundle"
\* (returned { nc, js, jsm }) or the error it threw.
Ret(k, n, j, m) == [kind |-> k, nc |-> n, js |-> j, jsm |-> m]

NoRet == Ret("none", NullNc, NullHandle, NullHandle)

\* what the handler reads of a ConsumerInfo (stream-health.ts 114-121):
\* num_pending, num_ack_pending and paused
ConsumerMetrics ==
    [pending : 0..MaxCount, ack_pending : 0..MaxCount, paused : BOOLEAN]

\* ConsumerHealth (stream-health.ts 6-16) as the handler fills it, without
\* last_delivery, which assessHealth does not read: lag is num_pending, as
\* pending is (lines 114, 118); the consumers of a stream have distinct
\* names, here the position n the server lists them at
Named(m, n) ==
    [name |-> n, pending |-> m.pending, ack_pending |-> m.ack_pending,
     paused |-> m.paused, lag |-> m.pending]

\* consumers: ConsumerHealth[] as the handler builds it (lines 109-129)
ConsumerLists ==
    {[i \in 1..Len(ms) |-> Named(ms[i], i)] :
        ms \in UNION {[1..n -> ConsumerMetrics] : n \in 0..MaxConsumers}}

\* lag_threshold / ack_pending_threshold: any number, negative ones included
Thresholds == -1..MaxCount

\* One entry of HealthAssessment.issues.  The source formats a string from
\* the rule's template, the consumer name and the numbers; the record keeps
\* exactly those parts (threshold is 0 where the template has none).
Issue(r, n, v, t) == [rule |-> r, name |-> n, value |-> v, threshold |-> t]

\* "No consumers configured"
NoConsumersIssue == Issue("noConsumers", 0, 0, 0)

\* HealthAssessment (stream-health.ts 18-21)
Assessment(st, is) == [status |-> st, issues |-> is]

NoAssessment == Assessment("none", <<>>)

\* Math.min
Min(a, b) == IF a < b THEN a ELSE b

\* timeout arguments of the calls that are looked at
ReqTimeouts == {500, MAX_TIMEOUT_MS, 2 * MAX_TIMEOUT_MS}

\* max_messages arguments of the calls that are looked at (what the client
\* does with a negative opts.max is not in the repository)
ReqMaxMessages == {0, 1, 2, MAX_MESSAGES, 2 * MAX_MESSAGES}

\* what a handler returned: kind is "none" (it has not returned), "ok"
\* (content is the JSON text of items) or "error" (isError: true)
Result(k, items) == [kind |-> k, items |-> items]

NoResult == Result("none", <<>>)

\* The locals of one nats_subscribe or nats_kv_watch call and the objects it
\* created:
\*   tool                  which handler runs ("none": no call yet)
\*   timeout, max_messages the arguments (max_messages is 0 for nats_kv_watch,
\*                         which has no such argument)
\*   pc                    "idle", "preparing" (nats_kv_watch awaits line 309,
\*                         322 or 336), "racing" (await Promise.race),
\*                         "returned"
\*   messages              messages / entries, the buffer
\*   sub                   the subscription or watch: "none", "open", "closed"
\*   max, received         opts.max and the count the client keeps for it
\*   loop                  messagePromise / watchPromise: "none", "iterating",
\*                         "done"
\*   timer, delay          the setTimeout timer: "none", "armed", "fired"
\*   race                  Promise.race: "none", "pending", or the arm that
\*                         settled it, "timer" or "messages"
\*   result                what the handler returned
IdleWait ==
    [tool |-> "none", timeout |-> 0, max_messages |-> 0, pc |-> "idle",
     effectiveTimeout |-> 0, effectiveMaxMessages |-> 0, messages |-> <<>>,
     sub |-> "none", max |-> 0, received |-> 0, loop |-> "none",
     timer |-> "none", delay |-> 0, race |-> "none", result |-> NoResult]

VARIABLES
    nc,                 \* state.nc: NullNc or a session
    js,                 \* state.js
    jsm,                \* state.jsm
    isConnected,        \* state.isConnected
    reconnectCount,     \* state.reconnectCount
    lastReconnectTime,  \* state.lastReconnectTime
    generation,         \* number of invalidations of the derived handles
    now,                \* Date.now()
    nextSess,           \* sessions handed out by connect() so far
    link,               \* per session: "none", "up", "down", "closed"
    listening,          \* per session: handleStatusEvents iterates nc.status()
    statusQ,            \* per session: notifications queued in the iterator
    createPc,           \* createNatsConnection: "idle", "connecting", "jsm",
                        \* "returned" (resolved, its caller resumes next)
    closePc,            \* closeNatsConnection: "idle", "draining"
    closeSess,          \* the session closeNatsConnection is draining
    asyncPc,            \* getNatsConnectionAsync: "idle", "awaitJsm"
    asyncHandle,        \* JetStreamManager under construction (line 180)
    asyncRet,           \* outcome of the last getNatsConnectionAsync
    registered,         \* main() has registered the tools
    toolJs,             \* js captured by the registered handlers
    toolJsm,            \* jsm captured by the registered handlers
    toolPc,             \* nats_stream_health handler: "idle", "running"
    toolUsed,           \* handle the running handler invokes
    hConsumers,         \* consumers: ConsumerHealth[] of the handler
    hLag,               \* lag_threshold of the call
    hAck,               \* ack_pending_threshold of the call
    hPc,                \* assessment: "idle", "ready", "done"
    hResult,            \* health: what assessHealth returned
    wait,               \* a nats_subscribe or nats_kv_watch call
    twin,               \* a second nats_subscribe call on the same subject
    published,          \* messages the server routed since the call began
    kvExists,           \* per bucket name: the stream KV_<bucket> exists
    kvPc,               \* per nats_kv_create call: "idle", "checking",
                        \* "creating", "returned"
    kvBucket,           \* per call: its bucket argument (NoBucket: none yet)
    kvResult            \* per call: "none", "created", "exists", "error"

connVars == <<nc, js, jsm, isConnected, reconnectCount, lastReconnectTime,
              generation>>
netVars  == <<now, nextSess, link, listening, statusQ>>
procVars == <<createPc, closePc, closeSess, asyncPc, asyncHandle, asyncRet>>
healthVars == <<hConsumers, hLag, hAck, hPc, hResult>>
waitVars == <<wait, twin, published>>
kvVars == <<kvExists, kvPc, kvBucket, kvResult>>
toolVars == <<registered, toolJs, toolJsm, toolPc, toolUsed, healthVars,
              waitVars, kvVars>>

vars == <<connVars, netVars, procVars, toolVars>>

\* ---- initial state: module load of connection.ts (lines 21-28) ----------
InitConn ==
    /\ nc = NullNc
    /\ js = NullHandle
    /\ jsm = NullHandle
    /\ isConnected = FALSE
    /\ reconnectCount = 0
    /\ lastReconnectTime = NullTime
    /\ generation = 0
    /\ now = 1
    /\ nextSess = 0
    /\ link = [s \in Sessions |-> "none"]
    /\ listening = [s \in Sessions |-> FALSE]
    /\ statusQ = [s \in Sessions |-> <<>>]
    /\ createPc = "idle"
    /\ closePc = "idle"
    /\ closeSess = NullNc
    /\ asyncPc = "idle"
    /\ asyncHandle = NullHandle
    /\ asyncRet = NoRet
    /\ registered = FALSE
    /\ toolJs = NullHandle
    /\ toolJsm = NullHandle
    /\ toolPc = "idle"
    /\ toolUsed = NullHandle
    /\ wait = IdleWait
    /\ twin = IdleWait
    /\ published = 0
    /\ kvPc = [p \in Callers |-> "idle"]
    /\ kvBucket = [p \in Callers |-> NoBucket]
    /\ kvResult = [p \in Callers |-> "none"]

\* no health check is running
Init ==
    /\ InitConn
    /\ kvExists = [b \in Buckets |-> FALSE]
    /\ hConsumers = <<>>
    /\ hLag = 0
    /\ hAck = 0
    /\ hPc = "idle"
    /\ hResult = NoAssessment

\* ---- the transport of the nats client (library, the environment) --------
\* A notification reaches a session's status iterator only while
\* handleStatusEvents iterates it; the iterator is bounded by MaxQueue.
Notify(s, e) ==
    IF listening[s]
    THEN /\ Len(statusQ[s]) < MaxQueue
         /\ statusQ' = [statusQ EXCEPT ![s] = Append(@, e)]
    ELSE UNCHANGED statusQ

\* the link of session s drops
TransportDisconnect(s) ==
    /\ link[s] = "up"
    /\ link' = [link EXCEPT ![s] = "down"]
    /\ Notify(s, "disconnect")
    /\ UNCHANGED <<connVars, now, nextSess, listening, procVars, toolVars>>

\* the client re-establishes the link of session s; time has passed
TransportReconnect(s) ==
    /\ link[s] = "down"
    /\ now <= MaxReconnects
    /\ now' = now + 1
    /\ link' = [link EXCEPT ![s] = "up"]
    /\ Notify(s, "reconnect")
    /\ UNCHANGED <<connVars, nextSess, listening, procVars, toolVars>>

\* any other notification: config update, lame duck mode, error, ...
TransportOther(s, e) ==
    /\ link[s] \in {"up", "down"}
    /\ listening[s]
    /\ Notify(s, e)
    /\ UNCHANGED <<connVars, now, nextSess, link, listening, procVars,
                   toolVars>>

\* ---- handleStatusEvents (connection.ts 58-96) ---------------------------
\* OnDisconnect as it would be if a disconnect dropped the derived handles
OnDisconnect_DropsHandles ==
    /\ isConnected' = FALSE
    /\ js' = NullHandle
    /\ jsm' = NullHandle
    /\ UNCHANGED <<nc, reconnectCount, lastReconnectTime, generation>>

\* case Events.Disconnect (62-65)
OnDisconnect ==
    /\ isConnected' = FALSE
    /\ UNCHANGED <<nc, js, jsm, reconnectCount, lastReconnectTime,
                   generation>>

\* OnReconnect as it would be without lines 72-73
OnReconnect_KeepsHandles ==
    /\ isConnected' = TRUE
    /\ reconnectCount' = reconnectCount + 1
    /\ lastReconnectTime' = now
    /\ UNCHANGED <<nc, js, jsm, generation>>

\* case Events.Reconnect (67-75); nulling js and jsm is what advances the
\* generation of the derived handles
OnReconnect ==
    /\ isConnected' = TRUE
    /\ reconnectCount' = reconnectCount + 1
    /\ lastReconnectTime' = now
    /\ js' = NullHandle
    /\ jsm' = NullHandle
    /\ generation' = generation + 1
    /\ UNCHANGED nc

\* OnOtherStatus as it would be if these notifications marked the session down
OnOtherStatus_MarksDown ==
    /\ isConnected' = FALSE
    /\ UNCHANGED <<nc, js, jsm, reconnectCount, lastReconnectTime,
                   generation>>

\* case Events.Update, Events.LDM, Events.Error and default (77-91): log only
OnOtherStatus ==
    UNCHANGED connVars

\* one iteration of the for await loop over nc.status() of session s
HandleStatus(s) ==
    /\ listening[s]
    /\ statusQ[s] # <<>>
    /\ statusQ' = [statusQ EXCEPT ![s] = Tail(@)]
    /\ CASE Head(statusQ[s]) = "disconnect" -> OnDisconnect
         [] Head(statusQ[s]) = "reconnect"  -> OnReconnect
         [] OTHER                           -> OnOtherStatus
    /\ UNCHANGED <<now, nextSess, link, listening, procVars, toolVars>>

\* ---- createNatsConnection (connection.ts 98-135) ------------------------
\* lines 99-122 up to the await of connect(); callers await a close before
\* they initialize again (index.ts 91-121, connection.test.ts 12-57)
CreateStart ==
    /\ createPc = "idle"
    /\ closePc = "idle"
    /\ nextSess < MaxSessions
    /\ createPc' = "connecting"
    /\ UNCHANGED <<connVars, netVars, closePc, closeSess, asyncPc,
                   asyncHandle, asyncRet, toolVars>>

\* connect() rejects: createNatsConnection throws at line 122
CreateConnectFail ==
    /\ createPc = "connecting"
    /\ createPc' = "idle"
    /\ UNCHANGED <<connVars, netVars, closePc, closeSess, asyncPc,
                   asyncHandle, asyncRet, toolVars>>

\* connect() resolves: lines 122-124 up to the await of jetstreamManager()
CreateConnected ==
    /\ createPc = "connecting"
    /\ nextSess' = nextSess + 1
    /\ link' = [link EXCEPT ![nextSess + 1] = "up"]
    /\ nc' = nextSess + 1
    /\ js' = Handle("js", nextSess + 1, 0)
    /\ createPc' = "jsm"
    /\ UNCHANGED <<jsm, isConnected, reconnectCount, lastReconnectTime,
                   generation, now, listening, statusQ, closePc, closeSess,
                   asyncPc, asyncHandle, asyncRet, toolVars>>

\* jetstreamManager() rejects: createNatsConnection throws at line 124
CreateJsmFail ==
    /\ createPc = "jsm"
    /\ createPc' = "idle"
    /\ UNCHANGED <<connVars, netVars, closePc, closeSess, asyncPc,
                   asyncHandle, asyncRet, toolVars>>

\* CreateFinish as it would be without line 127
CreateFinish_KeepsTime ==
    /\ createPc = "jsm"
    /\ jsm' = Handle("jsm", nc, 0)
    /\ isConnected' = TRUE
    /\ reconnectCount' = 0
    /\ generation' = 0
    /\ listening' = [listening EXCEPT ![nc] = TRUE]
    /\ createPc' = "returned"
    /\ UNCHANGED <<nc, js, lastReconnectTime, now, nextSess, link, statusQ,
                   closePc, closeSess, asyncPc, asyncHandle, asyncRet,
                   toolVars>>

\* CreateFinish as it would be without lines 126-127
CreateFinish_NoReset ==
    /\ createPc = "jsm"
    /\ jsm' = Handle("jsm", nc, 0)
    /\ isConnected' = TRUE
    /\ generation' = 0
    /\ listening' = [listening EXCEPT ![nc] = TRUE]
    /\ createPc' = "returned"
    /\ UNCHANGED <<nc, js, reconnectCount, lastReconnectTime, now, nextSess,
                   link, statusQ, closePc, closeSess, asyncPc, asyncHandle,
                   asyncRet, toolVars>>

\* jetstreamManager() resolves: lines 124-134; the new session starts at
\* generation 0 and handleStatusEvents begins to iterate its status stream
CreateFinish ==
    /\ createPc = "jsm"
    /\ jsm' = Handle("jsm", nc, 0)
    /\ isConnected' = TRUE
    /\ reconnectCount' = 0
    /\ lastReconnectTime' = NullTime
    /\ generation' = 0
    /\ listening' = [listening EXCEPT ![nc] = TRUE]
    /\ createPc' = "returned"
    /\ UNCHANGED <<nc, js, now, nextSess, link, statusQ, closePc, closeSess,
                   asyncPc, asyncHandle, asyncRet, toolVars>>

\* the caller that awaited createNatsConnection resumes (a test, or a main
\* whose tools are registered already)
CreateReturn ==
    /\ createPc = "returned"
    /\ createPc' = "idle"
    /\ UNCHANGED <<connVars, netVars, closePc, closeSess, asyncPc,
                   asyncHandle, asyncRet, toolVars>>

\* ---- closeNatsConnection (connection.ts 198-207) ------------------------
\* line 199-200 up to the await of drain(); a call with state.nc === null
\* does nothing
CloseStart ==
    /\ closePc = "idle"
    /\ createPc = "idle"
    /\ nc # NullNc
    /\ closePc' = "draining"
    /\ closeSess' = nc
    /\ UNCHANGED <<connVars, netVars, createPc, asyncPc, asyncHandle,
                   asyncRet, toolVars>>

\* CloseFinish as it would be if close also reset the reconnect statistics
CloseFinish_ResetsCounters ==
    /\ closePc = "draining"
    /\ link' = [link EXCEPT ![closeSess] = "closed"]
    /\ listening' = [listening EXCEPT ![closeSess] = FALSE]
    /\ statusQ' = [statusQ EXCEPT ![closeSess] = <<>>]
    /\ nc' = NullNc
    /\ js' = NullHandle
    /\ jsm' = NullHandle
    /\ isConnected' = FALSE
    /\ reconnectCount' = 0
    /\ lastReconnectTime' = NullTime
    /\ generation' = 0
    /\ closePc' = "idle"
    /\ closeSess' = NullNc
    /\ UNCHANGED <<now, nextSess, createPc, asyncPc, asyncHandle, asyncRet,
                   toolVars>>

\* drain() resolves: the session is closed, which ends its status iterator,
\* then lines 201-205
CloseFinish ==
    /\ closePc = "draining"
    /\ link' = [link EXCEPT ![closeSess] = "closed"]
    /\ listening' = [listening EXCEPT ![closeSess] = FALSE]
    /\ statusQ' = [statusQ EXCEPT ![closeSess] = <<>>]
    /\ nc' = NullNc
    /\ js' = NullHandle
    /\ jsm' = NullHandle
    /\ isConnected' = FALSE
    /\ closePc' = "idle"
    /\ closeSess' = NullNc
    /\ UNCHANGED <<reconnectCount, lastReconnectTime, generation, now,
                   nextSess, createPc, asyncPc, asyncHandle, asyncRet,
                   toolVars>>

\* ---- getNatsConnection (connection.ts 137-162) --------------------------
\* what a call made in the current state produces
SyncOutcome ==
    IF nc = NullNc THEN "notInitialized"
    ELSE IF ~isConnected THEN "disconnected"
    ELSE IF jsm = NullHandle THEN "jsmUnavailable"
    ELSE "bundle"

\* state.js after the lazy refresh of lines 147-152
SyncJs ==
    IF nc # NullNc /\ isConnected /\ (js = NullHandle \/ jsm = NullHandle)
    THEN Handle("js", nc, generation)
    ELSE js

\* a call changes the state only through the lazy refresh; what it returns
\* or throws is SyncOutcome of the state it is called in
GetNatsConnection ==
    /\ js' = SyncJs
    /\ UNCHANGED <<nc, jsm, isConnected, reconnectCount, lastReconnectTime,
                   generation, netVars, createPc, closePc, closeSess,
                   asyncPc, asyncHandle, asyncRet, toolVars>>

\* ---- getConnectionHealth (connection.ts 187-196) -------------------------
\* new Date(ms).toISOString(): the text of a time
IsoString(ms) == [iso |-> ms]

\* the null the snapshot carries in place of a time
NoIsoString == [iso |-> NullTime]

\* the snapshot a call made in the current state returns (the server name
\* is left out); a falsy lastReconnectTime gives null
getConnectionHealth ==
    [connected |-> isConnected,
     reconnectCount |-> reconnectCount,
     lastReconnectTime |-> IF lastReconnectTime # NullTime
                           THEN IsoString(lastReconnectTime)
                           ELSE NoIsoString]

\* ---- getNatsConnectionAsync (connection.ts 165-185) ---------------------
\* state.js after the refresh of lines 175-177
AsyncJs ==
    IF js = NullHandle THEN Handle("js", nc, generation) ELSE js

\* lines 166-180 up to the await of jetstreamManager(), or to the return of
\* line 184 when state.jsm is present
AsyncCall ==
    /\ asyncPc = "idle"
    /\ IF nc = NullNc
       THEN /\ asyncRet' = Ret("notInitialized", NullNc, NullHandle, NullHandle)
            /\ UNCHANGED <<js, asyncPc, asyncHandle>>
       ELSE IF ~isConnected
       THEN /\ asyncRet' = Ret("disconnected", NullNc, NullHandle, NullHandle)
            /\ UNCHANGED <<js, asyncPc, asyncHandle>>
       ELSE /\ js' = AsyncJs
            /\ IF jsm = NullHandle
               THEN /\ asyncPc' = "awaitJsm"
                    /\ asyncHandle' = Handle("jsm", nc, generation)
                    /\ asyncRet' = NoRet
               ELSE /\ asyncRet' = Ret("bundle", nc, AsyncJs, jsm)
                    /\ UNCHANGED <<asyncPc, asyncHandle>>
    /\ UNCHANGED <<nc, jsm, isConnected, reconnectCount, lastReconnectTime,
                   generation, netVars, createPc, closePc, closeSess,
                   toolVars>>

\* jetstreamManager() resolves: the assignment of line 180 and line 184.
\* The answer comes over the session the request was made on, so it cannot
\* come once that session is closed (the request is then rejected).
AsyncResume ==
    /\ asyncPc = "awaitJsm"
    /\ link[asyncHandle.sess] # "closed"
    /\ jsm' = asyncHandle
    /\ asyncRet' = Ret("bundle", nc, js, asyncHandle)
    /\ asyncPc' = "idle"
    /\ asyncHandle' = NullHandle
    /\ UNCHANGED <<nc, js, isConnected, reconnectCount, lastReconnectTime,
                   generation, netVars, createPc, closePc, closeSess,
                   toolVars>>

\* jetstreamManager() rejects: getNatsConnectionAsync throws at line 180
AsyncReject ==
    /\ asyncPc = "awaitJsm"
    /\ asyncRet' = Ret("error", NullNc, NullHandle, NullHandle)
    /\ asyncPc' = "idle"
    /\ asyncHandle' = NullHandle
    /\ UNCHANGED <<connVars, netVars, createPc, closePc, closeSess, toolVars>>

\* ---- main (index.ts 91-108) ---------------------------------------------
\* main resumes from the await of line 91: getNatsConnection() of line 94
\* returns a bundle and the register calls capture its js and jsm in the
\* handlers' closures, once
Register ==
    /\ ~registered
    /\ createPc = "returned"
    /\ SyncOutcome = "bundle"
    /\ createPc' = "idle"
    /\ registered' = TRUE
    /\ toolJs' = SyncJs
    /\ toolJsm' = jsm
    /\ js' = SyncJs
    /\ UNCHANGED <<nc, jsm, isConnected, reconnectCount, lastReconnectTime,
                   generation, netVars, closePc, closeSess, asyncPc,
                   asyncHandle, asyncRet, toolPc, toolUsed, healthVars,
                   waitVars, kvVars>>

\* ---- nats_stream_health handler (stream-health.ts 103-166) --------------
\* the handler starts and invokes the captured jsm (lines 106, 110)
ToolInvoke ==
    /\ registered
    /\ toolPc = "idle"
    /\ toolPc' = "running"
    /\ toolUsed' = toolJsm
    /\ UNCHANGED <<connVars, netVars, procVars, registered, toolJs, toolJsm,
                   healthVars, waitVars, kvVars>>

\* the handler returns its result or its error text
ToolReturn ==
    /\ toolPc = "running"
    /\ toolPc' = "idle"
    /\ toolUsed' = NullHandle
    /\ UNCHANGED <<connVars, netVars, procVars, registered, toolJs, toolJsm,
                   healthVars, waitVars, kvVars>>

\* ---- assessHealth (stream-health.ts 36-79) ------------------------------
\* AssessStep as it would be if line 72 did not test the running status
AssessStep_AckOverrides(acc, c, lagThreshold, ackPendingThreshold) ==
    LET a1 == IF c.paused /\ c.pending > 0
              THEN Assessment("unhealthy",
                       Append(acc.issues, Issue("paused", c.name, c.pending, 0)))
              ELSE acc
        a2 == IF c.lag > lagThreshold
              THEN Assessment("unhealthy",
                       Append(a1.issues,
                              Issue("lag", c.name, c.lag, lagThreshold)))
              ELSE a1
    IN  IF c.ack_pending > ackPendingThreshold
        THEN Assessment("degraded",
                 Append(a2.issues,
                        Issue("ack", c.name, c.ack_pending, ackPendingThreshold)))
        ELSE a2

\* AssessStep as it would be if line 64 assigned "degraded"
AssessStep_LagSetsDegraded(acc, c, lagThreshold, ackPendingThreshold) ==
    LET a1 == IF c.paused /\ c.pending > 0
              THEN Assessment("unhealthy",
                       Append(acc.issues, Issue("paused", c.name, c.pending, 0)))
              ELSE acc
        a2 == IF c.lag > lagThreshold
              THEN Assessment("degraded",
                       Append(a1.issues,
                              Issue("lag", c.name, c.lag, lagThreshold)))
              ELSE a1
    IN  IF c.ack_pending > ackPendingThreshold
        THEN Assessment(IF a2.status # "unhealthy" THEN "degraded"
                                                   ELSE a2.status,
                 Append(a2.issues,
                        Issue("ack", c.name, c.ack_pending, ackPendingThreshold)))
        ELSE a2

\* AssessStep as it would be if line 60 were an else-if of line 52
AssessStep_ElseIf(acc, c, lagThreshold, ackPendingThreshold) ==
    LET a2 == IF c.paused /\ c.pending > 0
              THEN Assessment("unhealthy",
                       Append(acc.issues, Issue("paused", c.name, c.pending, 0)))
              ELSE IF c.lag > lagThreshold
              THEN Assessment("unhealthy",
                       Append(acc.issues,
                              Issue("lag", c.name, c.lag, lagThreshold)))
              ELSE acc
    IN  IF c.ack_pending > ackPendingThreshold
        THEN Assessment(IF a2.status # "unhealthy" THEN "degraded"
                                                   ELSE a2.status,
                 Append(a2.issues,
                        Issue("ack", c.name, c.ack_pending, ackPendingThreshold)))
        ELSE a2

\* AssessStep as it would be if the lag check came before the paused check
AssessStep_LagBeforePaused(acc, c, lagThreshold, ackPendingThreshold) ==
    LET a1 == IF c.lag > lagThreshold
              THEN Assessment("unhealthy",
                       Append(acc.issues,
                              Issue("lag", c.name, c.lag, lagThreshold)))
              ELSE acc
        a2 == IF c.paused /\ c.pending > 0
              THEN Assessment("unhealthy",
                       Append(a1.issues, Issue("paused", c.name, c.pending, 0)))
              ELSE a1
    IN  IF c.ack_pending > ackPendingThreshold
        THEN Assessment(IF a2.status # "unhealthy" THEN "degraded"
                                                   ELSE a2.status,
                 Append(a2.issues,
                        Issue("ack", c.name, c.ack_pending, ackPendingThreshold)))
        ELSE a2

\* AssessStep as it would be if the test of line 72 guarded the whole block
\* of lines 68-75, the push of the issue included
AssessStep_AckOnlyIfNotUnhealthy(acc, c, lagThreshold, ackPendingThreshold) ==
    LET a1 == IF c.paused /\ c.pending > 0
              THEN Assessment("unhealthy",
                       Append(acc.issues, Issue("paused", c.name, c.pending, 0)))
              ELSE acc
        a2 == IF c.lag > lagThreshold
              THEN Assessment("unhealthy",
                       Append(a1.issues,
                              Issue("lag", c.name, c.lag, lagThreshold)))
              ELSE a1
    IN  IF c.ack_pending > ackPendingThreshold /\ a2.status # "unhealthy"
        THEN Assessment("degraded",
                 Append(a2.issues,
                        Issue("ack", c.name, c.ack_pending, ackPendingThreshold)))
        ELSE a2

\* one iteration of the loop of lines 50-76: acc is { status, issues } before
\* consumer c is looked at, the value is { status, issues } after
AssessStep(acc, c, lagThreshold, ackPendingThreshold) ==
    LET a1 == IF c.paused /\ c.pending > 0
              THEN Assessment("unhealthy",
                       Append(acc.issues, Issue("paused", c.name, c.pending, 0)))
              ELSE acc
        a2 == IF c.lag > lagThreshold
              THEN Assessment("unhealthy",
                       Append(a1.issues,
                              Issue("lag", c.name, c.lag, lagThreshold)))
              ELSE a1
    IN  IF c.ack_pending > ackPendingThreshold
        THEN Assessment(IF a2.status # "unhealthy" THEN "degraded"
                                                   ELSE a2.status,
                 Append(a2.issues,
                        Issue("ack", c.name, c.ack_pending, ackPendingThreshold)))
        ELSE a2

\* the for loop of lines 50-76 from consumer i on
RECURSIVE AssessLoop(_, _, _, _, _)
AssessLoop(acc, consumers, i, lagThreshold, ackPendingThreshold) ==
    IF i > Len(consumers) THEN acc
    ELSE AssessLoop(AssessStep(acc, consumers[i], lagThreshold,
                               ackPendingThreshold),
                    consumers, i + 1, lagThreshold, ackPendingThreshold)

\* assessHealth as it would be without the early return of lines 44-48
assessHealth_NoEmptyCase(consumers, lagThreshold, ackPendingThreshold) ==
    AssessLoop(Assessment("healthy", <<>>), consumers, 1, lagThreshold,
               ackPendingThreshold)

\* lines 36-79
assessHealth(consumers, lagThreshold, ackPendingThreshold) ==
    IF Len(consumers) = 0
    THEN Assessment("healthy", <<NoConsumersIssue>>)
    ELSE AssessLoop(Assessment("healthy", <<>>), consumers, 1, lagThreshold,
                    ackPendingThreshold)

\* the handler has the consumer list and the thresholds of a call
InitHealth ==
    /\ InitConn
    /\ kvExists = [b \in Buckets |-> FALSE]
    /\ hConsumers \in ConsumerLists
    /\ hLag \in Thresholds
    /\ hAck \in Thresholds
    /\ hPc = "ready"
    /\ hResult = NoAssessment

\* line 132 of the nats_stream_health handler
StreamHealthAssess ==
    /\ hPc = "ready"
    /\ hResult' = assessHealth(hConsumers, hLag, hAck)
    /\ hPc' = "done"
    /\ UNCHANGED <<connVars, netVars, procVars, registered, toolJs, toolJsm,
                   toolPc, toolUsed, hConsumers, hLag, hAck, waitVars,
                   kvVars>>

NextHealth == StreamHealthAssess

SpecHealth == InitHealth /\ [][NextHealth]_vars

\* ---- nats_subscribe (subscribe.ts 26-86), nats_kv_watch (kv.ts 307-375) --
\* everything but the calls that are waiting
restVars == <<connVars, netVars, procVars, registered, toolJs, toolJsm,
              toolPc, toolUsed, healthVars, kvVars>>

\* effectiveTimeout as it would be without the Math.min of line 28
effectiveTimeout_Unclamped(timeout) ==
    timeout

\* subscribe.ts 28, kv.ts 320
effectiveTimeout(timeout) ==
    Min(timeout, MAX_TIMEOUT_MS)

\* subscribe.ts 29
effectiveMaxMessages(max_messages) ==
    Min(max_messages, MAX_MESSAGES)

\* subscribe.ts 28-69: the call up to its await of Promise.race; the
\* subscription is open, the timer is armed and messagePromise iterates the
\* subscription
SubscribeArm(timeout, max_messages) ==
    [tool |-> "nats_subscribe", timeout |-> timeout,
     max_messages |-> max_messages, pc |-> "racing",
     effectiveTimeout |-> effectiveTimeout(timeout),
     effectiveMaxMessages |-> effectiveMaxMessages(max_messages),
     messages |-> <<>>, sub |-> "open",
     max |-> effectiveMaxMessages(max_messages), received |-> 0,
     loop |-> "iterating", timer |-> "armed",
     delay |-> effectiveTimeout(timeout), race |-> "pending",
     result |-> NoResult]

\* KvWatchArmed as it would be without the setTimeout of kv.ts 339
KvWatchArmed_NoTimer(w) ==
    [w EXCEPT !.pc = "racing",
              !.effectiveTimeout = effectiveTimeout(w.timeout),
              !.sub = "open", !.loop = "iterating",
              !.delay = effectiveTimeout(w.timeout), !.race = "pending"]

\* kv.ts 336-357: the call from the resolution of kv.watch() up to its await
\* of Promise.race
KvWatchArmed(w) ==
    [w EXCEPT !.pc = "racing",
              !.effectiveTimeout = effectiveTimeout(w.timeout),
              !.sub = "open", !.loop = "iterating", !.timer = "armed",
              !.delay = effectiveTimeout(w.timeout), !.race = "pending"]

\* Promise.race (subscribe.ts 69, kv.ts 357): the first arm to resolve
\* settles it, a later one changes nothing
Settle(w, arm) == IF w.race = "pending" THEN [w EXCEPT !.race = arm] ELSE w

\* OnMessage as it would be if line 62 compared with > instead of >=
OnMessage_OffByOne(w, item) ==
    LET pushed == [w EXCEPT !.received = @ + 1,
                            !.messages = Append(@, item)]
    IN  IF /\ w.tool = "nats_subscribe"
           /\ Len(pushed.messages) > w.effectiveMaxMessages
        THEN Settle([pushed EXCEPT !.sub = "closed", !.loop = "done"],
                    "messages")
        ELSE pushed

\* OnMessage as it would be if the item were put at the front of the buffer
OnMessage_Unshifts(w, item) ==
    LET pushed == [w EXCEPT !.received = @ + 1,
                            !.messages = <<item>> \o @]
    IN  IF /\ w.tool = "nats_subscribe"
           /\ Len(pushed.messages) >= w.effectiveMaxMessages
        THEN Settle([pushed EXCEPT !.sub = "closed", !.loop = "done"],
                    "messages")
        ELSE pushed

\* one iteration of the for await loop (subscribe.ts 55-66, kv.ts 345-354):
\* the item is pushed, then nats_subscribe tests the length, unsubscribes
\* and breaks, which resolves messagePromise.  The client's own limit
\* (opts.max, the same number) is reached by the same message.
OnMessage(w, item) ==
    LET pushed == [w EXCEPT !.received = @ + 1,
                            !.messages = Append(@, item)]
    IN  IF /\ w.tool = "nats_subscribe"
           /\ Len(pushed.messages) >= w.effectiveMaxMessages
        THEN Settle([pushed EXCEPT !.sub = "closed", !.loop = "done"],
                    "messages")
        ELSE pushed

\* OnTimeout as it would be without the unsubscribe of line 49
OnTimeout_NoUnsubscribe(w) ==
    Settle([w EXCEPT !.timer = "fired"], "timer")

\* OnTimeout as it would be if the callback recorded its arm as the winner
\* whatever the race had settled on
OnTimeout_Resettles(w) ==
    [w EXCEPT !.timer = "fired",
              !.sub = IF @ = "open" THEN "closed" ELSE @,
              !.race = "timer"]

\* the setTimeout callback (subscribe.ts 48-51, kv.ts 339-342): the source
\* is stopped (nothing happens to one that is closed) and timeoutPromise
\* resolves
OnTimeout(w) ==
    Settle([w EXCEPT !.timer = "fired",
                     !.sub = IF @ = "open" THEN "closed" ELSE @],
           "timer")

\* the for await loop finds its iterator ended: messagePromise or
\* watchPromise resolves (subscribe.ts 55-67, kv.ts 345-355)
OnIteratorEnd(w) == Settle([w EXCEPT !.loop = "done"], "messages")

\* the handler resumes from its await of Promise.race and returns the JSON
\* text of the buffer (subscribe.ts 69-76, kv.ts 357-364)
OnRaceSettled(w) ==
    [w EXCEPT !.pc = "returned", !.result = Result("ok", w.messages)]

\* Receiving as it would be if the loop went on taking messages after its
\* source was stopped
Receiving_IgnoresStop(w) ==
    w.loop = "iterating"

\* the call of w has a subscription that takes messages
Receiving(w) ==
    w.sub = "open" /\ w.loop = "iterating"

\* the loop of w is about to find its iterator ended
Ending(w) == w.sub = "closed" /\ w.loop = "iterating"

\* the timer of w is armed with delay d
Armed(w, d) == w.timer = "armed" /\ w.delay = d

\* the handler of w can resume from Promise.race
Resumable(w) == w.pc = "racing" /\ w.race \in {"timer", "messages"}

\* nats_subscribe is called (subscribe.ts 26-69)
SubscribeCall(timeout, max_messages) ==
    /\ wait.pc = "idle"
    /\ twin.pc = "idle"
    /\ wait' = SubscribeArm(timeout, max_messages)
    /\ UNCHANGED <<twin, published, restVars>>

\* nats_subscribe is called and nc.subscribe throws (the connection is
\* closed): the catch of lines 77-85 returns the error
SubscribeThrows(timeout, max_messages) ==
    /\ wait.pc = "idle"
    /\ twin.pc = "idle"
    /\ wait' = [IdleWait EXCEPT
                   !.tool = "nats_subscribe", !.timeout = timeout,
                   !.max_messages = max_messages, !.pc = "returned",
                   !.effectiveTimeout = effectiveTimeout(timeout),
                   !.effectiveMaxMessages = effectiveMaxMessages(max_messages),
                   !.max = effectiveMaxMessages(max_messages),
                   !.result = Result("error", <<>>)]
    /\ UNCHANGED <<twin, published, restVars>>

\* nats_kv_watch is called: kv.ts 307-309 up to the await of streamExists
KvWatchCall(timeout) ==
    /\ wait.pc = "idle"
    /\ twin.pc = "idle"
    /\ wait' = [IdleWait EXCEPT !.tool = "nats_kv_watch",
                                !.timeout = timeout, !.pc = "preparing"]
    /\ UNCHANGED <<twin, published, restVars>>

\* streamExists resolves to false: kv.ts 309-317
KvWatchNotFound ==
    /\ wait.pc = "preparing"
    /\ wait' = [wait EXCEPT !.pc = "returned",
                            !.result = Result("notFound", <<>>)]
    /\ UNCHANGED <<twin, published, restVars>>

\* streamExists, js.views.kv or kv.watch rejects: the catch of kv.ts 365-373
KvWatchThrows ==
    /\ wait.pc = "preparing"
    /\ wait' = [wait EXCEPT !.pc = "returned",
                            !.result = Result("error", <<>>)]
    /\ UNCHANGED <<twin, published, restVars>>

\* kv.watch resolves: kv.ts 336-357
KvWatchArm ==
    /\ wait.pc = "preparing"
    /\ wait' = KvWatchArmed(wait)
    /\ UNCHANGED <<twin, published, restVars>>

\* the server routes one more message of the subject (one more update of
\* the bucket); every open subscription receives it, item n being the n-th
\* message since the call
SourcePublish ==
    /\ wait.pc # "idle"
    /\ published < MaxPublished
    /\ Receiving(wait) \/ published - wait.received < MaxUnheard
    /\ published' = published + 1
    /\ wait' = IF Receiving(wait) THEN OnMessage(wait, published + 1) ELSE wait
    /\ twin' = IF Receiving(twin) THEN OnMessage(twin, published + 1) ELSE twin
    /\ UNCHANGED restVars

\* the source ends on its own: the connection is drained or closed
SourceEnd ==
    /\ Receiving(wait) \/ Receiving(twin)
    /\ wait' = IF Receiving(wait) THEN [wait EXCEPT !.sub = "closed"] ELSE wait
    /\ twin' = IF Receiving(twin) THEN [twin EXCEPT !.sub = "closed"] ELSE twin
    /\ UNCHANGED <<published, restVars>>

\* the loop over a closed source ends
IteratorEnd ==
    /\ Ending(wait) \/ Ending(twin)
    /\ wait' = IF Ending(wait) THEN OnIteratorEnd(wait) ELSE wait
    /\ twin' = IF Ending(twin) THEN OnIteratorEnd(twin) ELSE twin
    /\ UNCHANGED <<published, restVars>>

\* the timers armed with delay d fire
TimeoutFires(d) ==
    /\ Armed(wait, d) \/ Armed(twin, d)
    /\ wait' = IF Armed(wait, d) THEN OnTimeout(wait) ELSE wait
    /\ twin' = IF Armed(twin, d) THEN OnTimeout(twin) ELSE twin
    /\ UNCHANGED <<published, restVars>>

\* the handlers whose race is settled resume and return
RaceSettled ==
    /\ Resumable(wait) \/ Resumable(twin)
    /\ wait' = IF Resumable(wait) THEN OnRaceSettled(wait) ELSE wait
    /\ twin' = IF Resumable(twin) THEN OnRaceSettled(twin) ELSE twin
    /\ UNCHANGED <<published, restVars>>

\* one nats_subscribe or nats_kv_watch call and its source
NextWait ==
    \/ \E t \in ReqTimeouts : \E m \in ReqMaxMessages : SubscribeCall(t, m)
    \/ \E t \in ReqTimeouts : \E m \in ReqMaxMessages : SubscribeThrows(t, m)
    \/ \E t \in ReqTimeouts : KvWatchCall(t)
    \/ KvWatchNotFound
    \/ KvWatchThrows
    \/ KvWatchArm
    \/ SourcePublish
    \/ SourceEnd
    \/ IteratorEnd
    \/ \E d \in {wait.delay} : TimeoutFires(d)
    \/ RaceSettled

SpecWait == Init /\ [][NextWait]_vars

\* what the event loop guarantees to a call that waits: a timer that is
\* armed fires (setTimeout, subscribe.ts 48, kv.ts 339), and a handler whose
\* Promise.race is settled resumes (subscribe.ts 69, kv.ts 357).  Nothing is
\* assumed of the source: it may stay silent, and it may never end.
WaitFairness ==
    /\ WF_vars(\E d \in {wait.delay} : TimeoutFires(d))
    /\ WF_vars(RaceSettled)

SpecWaitFair == Init /\ [][NextWait]_vars /\ WaitFairness

\* a request at the ceiling for every argument that is above its ceiling
AtCeiling(x, ceiling) == IF x > ceiling THEN ceiling ELSE x

\* two nats_subscribe calls on one subject start together, the first with
\* an argument above its ceiling, the second with the same request at the
\* ceiling
TwinCall(timeout, max_messages) ==
    /\ wait.pc = "idle"
    /\ twin.pc = "idle"
    /\ timeout > MAX_TIMEOUT_MS \/ max_messages > MAX_MESSAGES
    /\ wait' = SubscribeArm(timeout, max_messages)
    /\ twin' = SubscribeArm(AtCeiling(timeout, MAX_TIMEOUT_MS),
                            AtCeiling(max_messages, MAX_MESSAGES))
    /\ UNCHANGED <<published, restVars>>

\* the two calls see the same messages, and timers of one delay fire together
NextTwin ==
    \/ \E t \in ReqTimeouts : \E m \in ReqMaxMessages : TwinCall(t, m)
    \/ SourcePublish
    \/ SourceEnd
    \/ IteratorEnd
    \/ \E d \in {wait.delay, twin.delay} : TimeoutFires(d)
    \/ RaceSettled

SpecTwin == Init /\ [][NextTwin]_vars

\* the connection supervisor and the callers of its synchronous accessor
Next ==
    \/ \E s \in Sessions : TransportDisconnect(s)
    \/ \E s \in Sessions : TransportReconnect(s)
    \/ \E s \in Sessions : \E e \in OtherEvents : TransportOther(s, e)
    \/ \E s \in Sessions : HandleStatus(s)
    \/ CreateStart
    \/ CreateConnectFail
    \/ CreateConnected
    \/ CreateJsmFail
    \/ CreateFinish
    \/ CreateReturn
    \/ CloseStart
    \/ CloseFinish
    \/ GetNatsConnection

Spec == Init /\ [][Next]_vars

\* ---- nats_kv_create handler (kv.ts 166-204) ------------------------------
\* what a nats_kv_create call leaves alone
nonKvVars == <<connVars, netVars, procVars, registered, toolJs, toolJsm,
               toolPc, toolUsed, healthVars, waitVars>>

\* with the other variables as Init leaves them, the buckets of the server
\* are any of the names
InitKv ==
    /\ InitConn
    /\ hConsumers = <<>>
    /\ hLag = 0
    /\ hAck = 0
    /\ hPc = "idle"
    /\ hResult = NoAssessment
    /\ kvExists \in [Buckets -> BOOLEAN]

\* call p is made for bucket b: line 168 up to the await of streamExists
KvCreateCall(p, b) ==
    /\ kvPc[p] = "idle"
    /\ kvPc' = [kvPc EXCEPT ![p] = "checking"]
    /\ kvBucket' = [kvBucket EXCEPT ![p] = b]
    /\ UNCHANGED <<kvExists, kvResult, nonKvVars>>

\* streamExists(jsm, "KV_<bucket>") of utils.ts 32-46 resolves for call p:
\* true when jsm.streams.info found the stream, false on "stream not found"
streamExists(p) ==
    kvExists[kvBucket[p]]

\* streamExists resolved to true: the error of lines 169-175
KvCreateExists(p) ==
    /\ kvPc[p] = "checking"
    /\ streamExists(p)
    /\ kvPc' = [kvPc EXCEPT ![p] = "returned"]
    /\ kvResult' = [kvResult EXCEPT ![p] = "exists"]
    /\ UNCHANGED <<kvExists, kvBucket, nonKvVars>>

\* streamExists resolved to false: lines 178-187 up to the await of
\* js.views.kv(bucket, opts)
KvCreateAbsent(p) ==
    /\ kvPc[p] = "checking"
    /\ ~streamExists(p)
    /\ kvPc' = [kvPc EXCEPT ![p] = "creating"]
    /\ UNCHANGED <<kvExists, kvBucket, kvResult, nonKvVars>>

\* js.views.kv(bucket, opts) resolves: it creates the bucket when there is
\* none and opens the one there is (as the handlers of kv.ts 20, 63, 95,
\* 127 rely on); lines 187-194
KvCreateResolves(p) ==
    /\ kvPc[p] = "creating"
    /\ kvExists' = [kvExists EXCEPT ![kvBucket[p]] = TRUE]
    /\ kvPc' = [kvPc EXCEPT ![p] = "returned"]
    /\ kvResult' = [kvResult EXCEPT ![p] = "created"]
    /\ UNCHANGED <<kvBucket, nonKvVars>>

\* streamExists rethrows another error, or js.views.kv rejects (the server
\* refuses the configuration, the connection is lost): the catch of lines
\* 195-203
KvCreateThrows(p) ==
    /\ kvPc[p] \in {"checking", "creating"}
    /\ kvPc' = [kvPc EXCEPT ![p] = "returned"]
    /\ kvResult' = [kvResult EXCEPT ![p] = "error"]
    /\ UNCHANGED <<kvExists, kvBucket, nonKvVars>>

\* nats_kv_create calls whose steps interleave at their awaits
NextKv ==
    \/ \E p \in Callers : \E b \in Buckets : KvCreateCall(p, b)
    \/ \E p \in Callers : KvCreateExists(p)
    \/ \E p \in Callers : KvCreateAbsent(p)
    \/ \E p \in Callers : KvCreateResolves(p)
    \/ \E p \in Callers : KvCreateThrows(p)

SpecKv == InitKv /\ [][NextKv]_vars

\* the supervisor with a caller that keeps calling getNatsConnection: every
\* call that can change the state is made, and every queued status
\* notification is handled (the for await loop of connection.ts 60)
RetryFairness ==
    /\ WF_vars(GetNatsConnection)
    /\ \A s \in Sessions : WF_vars(HandleStatus(s))

SpecRetry == Init /\ [][Next]_vars /\ RetryFairness

\* the supervisor with a caller of the suspending accessor
NextAsync ==
    \/ Next
    \/ AsyncCall
    \/ AsyncResume
    \/ AsyncReject

SpecAsync == Init /\ [][NextAsync]_vars

\* the supervisor with main's registration and the registered handler
NextTools ==
    \/ Next
    \/ Register
    \/ ToolInvoke
    \/ ToolReturn

SpecTools == Init /\ [][NextTools]_vars

TypeOK ==
    /\ nc \in {NullNc} \cup Sessions
    /\ isConnected \in BOOLEAN
    /\ reconnectCount \in Nat
    /\ generation \in Nat
    /\ createPc \in {"idle", "connecting", "jsm", "returned"}
    /\ closePc \in {"idle", "draining"}
    /\ asyncPc \in {"idle", "awaitJsm"}
    /\ toolPc \in {"idle", "running"}


\* ==== properties ==========================================================

\* the handler of session s takes notification e off its status iterator
Consumed(s, e) ==
    /\ listening[s]
    /\ listening'[s]
    /\ statusQ[s] # <<>>
    /\ Head(statusQ[s]) = e
    /\ statusQ'[s] = Tail(statusQ[s])

\* createNatsConnection resolves
InitializeReturns ==
    /\ createPc = "jsm"
    /\ createPc' = "returned"

\* closeNatsConnection has completed and no session was installed since
Closed ==
    /\ nc = NullNc
    /\ closePc = "idle"
    /\ \E s \in Sessions : link[s] = "closed"

\* C1: every processed Reconnect adds exactly 1 to reconnectCount, sets
\* isConnected, stamps lastReconnectTime with the current time and
\* invalidates js and jsm (generation + 1); nothing but a processed Reconnect
\* or a resolving initialize changes reconnectCount, and generation equals
\* reconnectCount in every state, so k reconnects after initialize give k, k.
C1_ReconnectLockStep ==
    /\ [](generation = reconnectCount)
    /\ [][\A s \in Sessions :
              Consumed(s, "reconnect") =>
                  (/\ reconnectCount' = reconnectCount + 1
                   /\ generation' = generation + 1
                   /\ isConnected'
                   /\ lastReconnectTime' = now
                   /\ js' = NullHandle
                   /\ jsm' = NullHandle)]_vars
    /\ [][reconnectCount' # reconnectCount =>
              ((\E s \in Sessions : Consumed(s, "reconnect"))
               \/ (InitializeReturns /\ reconnectCount' = 0))]_vars

\* two reconnects have been processed since initialize
C1_Witness ==
    /\ reconnectCount = MaxReconnects
    /\ generation = MaxReconnects
    /\ isConnected
    /\ lastReconnectTime # NullTime
    /\ jsm = NullHandle

\* C2: the handle getNatsConnectionAsync caches and returns when its await
\* of jetstreamManager() resolves is bound to the generation current at that
\* moment (same session; a Reconnect processed during the suspension must
\* not let the handle begun before it through).
C2_AsyncHandleIsCurrent ==
    [][(asyncPc = "awaitJsm" /\ asyncPc' = "idle"
          /\ asyncRet'.kind = "bundle" /\ asyncHandle.sess = nc')
       => (asyncRet'.jsm.gen = generation' /\ jsm'.gen = generation')]_vars

\* C3: a handler never invokes a handle obtained under an older generation
\* than the current one.
C3_NoStaleHandleInvoked ==
    [][(toolPc = "idle" /\ toolPc' = "running")
       => toolUsed'.gen >= generation]_vars

\* C4: once close has completed, no processed status notification changes
\* isConnected, reconnectCount, lastReconnectTime or the derived handles.
C4_ClosedIsTerminal ==
    [][(Closed /\ \E s \in Sessions : \E e \in EventTypes : Consumed(s, e))
       => UNCHANGED <<isConnected, reconnectCount, lastReconnectTime, js,
                      jsm>>]_vars

\* C5: getNatsConnection fails with the not-initialized error exactly when
\* there is no session, with the unavailable error exactly when there is one
\* and isConnected is false, and returns the bundle in every other state.
C5_TwoFailureCases ==
    /\ nc = NullNc => SyncOutcome = "notInitialized"
    /\ (nc # NullNc /\ ~isConnected) => SyncOutcome = "disconnected"
    /\ (nc # NullNc /\ isConnected) => SyncOutcome = "bundle"

\* C6: when createNatsConnection resolves, isConnected is true,
\* reconnectCount and generation are 0, lastReconnectTime is null and the
\* status stream of the installed session is being iterated.
C6_InitializeResets ==
    [][InitializeReturns =>
          (/\ nc' # NullNc
           /\ isConnected'
           /\ reconnectCount' = 0
           /\ generation' = 0
           /\ lastReconnectTime' = NullTime
           /\ listening'[nc'])]_vars

\* a re-initialize after a close has just resolved, and the link of the
\* earlier session had been re-established
C6_Witness ==
    /\ createPc = "returned"
    /\ nc = 2
    /\ link[1] = "closed"
    /\ now > 1
    /\ reconnectCount = 0
    /\ lastReconnectTime = NullTime

\* C7: a processed Disconnect sets isConnected to false and changes neither
\* generation, reconnectCount, lastReconnectTime nor the cached js and jsm.
C7_DisconnectFrame ==
    [][\A s \in Sessions :
          Consumed(s, "disconnect") =>
              (/\ ~isConnected'
               /\ UNCHANGED <<nc, js, jsm, reconnectCount, lastReconnectTime,
                              generation>>)]_vars

\* the Disconnect of the installed session has been processed after an
\* earlier reconnect and a refresh: the handles and the statistics are there
C7_Witness ==
    /\ nc # NullNc
    /\ listening[nc]
    /\ link[nc] = "down"
    /\ statusQ[nc] = <<>>
    /\ ~isConnected
    /\ js # NullHandle
    /\ reconnectCount = 1
    /\ lastReconnectTime # NullTime

\* C8: a processed notification of any other type changes neither
\* isConnected, generation, reconnectCount, lastReconnectTime nor js and jsm.
C8_OtherStatusFrame ==
    [][\A s \in Sessions : \A e \in OtherEvents :
          Consumed(s, e) => UNCHANGED connVars]_vars

\* a log-only notification is the next one the handler of the connected,
\* once reconnected session takes
C8_Witness ==
    /\ nc # NullNc
    /\ listening[nc]
    /\ statusQ[nc] # <<>>
    /\ Head(statusQ[nc]) \in OtherEvents
    /\ isConnected
    /\ reconnectCount = 1

\* C9: generation never decreases.
C9_GenerationNeverDecreases ==
    [][generation' >= generation]_vars

\* C9 as amended: generation decreases only when an initialize resolves,
\* which sets it to 0; status notifications, accessor calls and close never
\* lower it.
C9_GenerationDecreasesOnlyOnInitialize ==
    [][generation' < generation
       => (InitializeReturns /\ generation' = 0)]_vars

\* the generation reached by two reconnects has survived the close
C9_Witness ==
    /\ Closed
    /\ generation = MaxReconnects

\* a consumer the rules of lines 52 and 60 call unhealthy
IsUnhealthy(c) == (c.paused /\ c.pending > 0) \/ c.lag > hLag

\* a consumer the rule of line 68 calls degraded
IsDegraded(c) == c.ack_pending > hAck

\* the worst contribution over the consumers of the call
WorstContribution ==
    IF \E i \in 1..Len(hConsumers) : IsUnhealthy(hConsumers[i])
    THEN "unhealthy"
    ELSE IF \E i \in 1..Len(hConsumers) : IsDegraded(hConsumers[i])
    THEN "degraded"
    ELSE "healthy"

Reverse(q) == [i \in 1..Len(q) |-> q[Len(q) + 1 - i]]

\* C10: for a non-empty consumer list the status is the worst contribution
\* (unhealthy > degraded > healthy) of any consumer, whatever the order the
\* consumers are processed in.
C10_WorstContributionWins ==
    (hPc = "done" /\ hConsumers # <<>>) =>
        /\ hResult.status = WorstContribution
        /\ assessHealth(Reverse(hConsumers), hLag, hAck).status
               = hResult.status

\* a paused consumer with pending messages is followed by one that is only
\* degraded, and the assessment is unhealthy
C10_Witness ==
    /\ hPc = "done"
    /\ Len(hConsumers) = 2
    /\ hConsumers[1].paused
    /\ hConsumers[1].pending > 0
    /\ ~IsUnhealthy(hConsumers[2])
    /\ IsDegraded(hConsumers[2])
    /\ hResult.status = "unhealthy"


\* the issue of rule r about consumer c is in the returned list
HasIssue(r, c) ==
    \E k \in 1..Len(hResult.issues) :
        /\ hResult.issues[k].rule = r
        /\ hResult.issues[k].name = c.name

\* C11: for an empty consumer list and any two thresholds the assessment is
\* healthy with exactly the one issue "No consumers configured".
C11_EmptyIsHealthy ==
    (hPc = "done" /\ hConsumers = <<>>) =>
        hResult = Assessment("healthy", <<NoConsumersIssue>>)

\* the empty list has been assessed under negative thresholds
C11_Witness ==
    /\ hPc = "done"
    /\ hConsumers = <<>>
    /\ hLag < 0
    /\ hAck < 0
    /\ hResult.issues = <<NoConsumersIssue>>

\* C12: the lag rule is the else-branch of the paused rule: no consumer has
\* both the paused issue and the lag issue in the returned list.
C12_LagIsElseOfPaused ==
    hPc = "done" =>
        \A i \in 1..Len(hConsumers) :
            ~(HasIssue("paused", hConsumers[i]) /\ HasIssue("lag", hConsumers[i]))

\* C12 as amended: the two rules are evaluated independently of each other.
\* A consumer has the paused issue exactly when it is paused with
\* pending > 0 and the lag issue exactly when lag > lagThreshold; one that
\* meets both has both, the paused issue right before the lag issue.
C12_LagIndependentOfPaused ==
    hPc = "done" =>
        \A i \in 1..Len(hConsumers) :
            LET c == hConsumers[i]
            IN  /\ HasIssue("paused", c) <=> (c.paused /\ c.pending > 0)
                /\ HasIssue("lag", c) <=> c.lag > hLag
                /\ (c.paused /\ c.pending > 0 /\ c.lag > hLag) =>
                       \E k \in 1..(Len(hResult.issues) - 1) :
                           /\ hResult.issues[k]
                                  = Issue("paused", c.name, c.pending, 0)
                           /\ hResult.issues[k + 1]
                                  = Issue("lag", c.name, c.lag, hLag)

\* one consumer, paused with pending messages and lagging: two issues
C12_Witness ==
    /\ hPc = "done"
    /\ Len(hConsumers) = 1
    /\ hConsumers[1].paused
    /\ hConsumers[1].pending > 0
    /\ hConsumers[1].lag > hLag
    /\ ~IsDegraded(hConsumers[1])
    /\ Len(hResult.issues) = 2

\* C13: every consumer with ack_pending > ackPendingThreshold has its
\* ack-pending issue in the list, whether or not it also met an unhealthy
\* rule, and no other consumer has one; alone, such a consumer makes the
\* status degraded unless it is unhealthy itself, and wherever it stands it
\* never turns an unhealthy status into anything else.
C13_AckPendingRule ==
    hPc = "done" =>
        /\ \A i \in 1..Len(hConsumers) :
               HasIssue("ack", hConsumers[i]) <=> IsDegraded(hConsumers[i])
        /\ (Len(hConsumers) = 1 /\ IsDegraded(hConsumers[1])) =>
               hResult.status = IF IsUnhealthy(hConsumers[1])
                                THEN "unhealthy" ELSE "degraded"
        /\ \A i \in 1..Len(hConsumers) :
               (IsDegraded(hConsumers[i])
                  /\ \E j \in 1..i : IsUnhealthy(hConsumers[j])) =>
                   hResult.status = "unhealthy"

\* a lagging consumer that also exceeds the ack-pending threshold: both
\* issues, status unhealthy
C13_Witness ==
    /\ hPc = "done"
    /\ Len(hConsumers) = 1
    /\ hConsumers[1].lag > hLag
    /\ IsDegraded(hConsumers[1])
    /\ HasIssue("ack", hConsumers[1])
    /\ HasIssue("lag", hConsumers[1])
    /\ hResult.status = "unhealthy"

\* unhealthy > degraded > healthy
Rank(st) ==
    CASE st = "unhealthy" -> 2
      [] st = "degraded"  -> 1
      [] OTHER            -> 0

\* the consumer list without its i-th element
Without(q, i) == [k \in 1..(Len(q) - 1) |-> IF k < i THEN q[k] ELSE q[k + 1]]

\* C14: monotonicity.  A consumer that meets an unhealthy rule yields
\* unhealthy on its own, and wherever it stands in the list the status of the
\* list is not better than the status of the list without it (every list S
\* extended by such a consumer c at any position is a list of the call).
C14_Monotone ==
    hPc = "done" =>
        \A i \in 1..Len(hConsumers) :
            IsUnhealthy(hConsumers[i]) =>
                /\ assessHealth(<<hConsumers[i]>>, hLag, hAck).status
                       = "unhealthy"
                /\ Rank(hResult.status)
                       >= Rank(assessHealth(Without(hConsumers, i), hLag,
                                            hAck).status)

\* a lagging consumer was added in front of one that is degraded only
C14_Witness ==
    /\ hPc = "done"
    /\ Len(hConsumers) = 2
    /\ hConsumers[1].lag > hLag
    /\ ~hConsumers[1].paused
    /\ ~IsUnhealthy(hConsumers[2])
    /\ IsDegraded(hConsumers[2])
    /\ assessHealth(Without(hConsumers, 1), hLag, hAck).status = "degraded"
    /\ hResult.status = "unhealthy"


\* the first n messages routed since the call, in order
FirstItems(n) == [i \in 1..n |-> i]

\* C15: when a bounded wait has returned, the activity that lost the race
\* has been cancelled: no timer of the call is still armed and its source is
\* no longer open.
C15_LoserCancelledAtReturn ==
    (wait.pc = "returned" /\ wait.result.kind = "ok") =>
        /\ wait.timer # "armed"
        /\ wait.sub # "open"

\* C16: when the source delivers the maxItems-th item (maxItems >= 1) before
\* the timer fires, the source is stopped in that very step and the race is
\* settled by the collecting arm, so the handler can return with the timer
\* still armed; what it then returns is exactly the first maxItems items.
C16_MaxReachedReturnsFirstItems ==
    /\ [][(/\ wait.tool = "nats_subscribe"
           /\ wait.effectiveMaxMessages >= 1
           /\ wait.timer = "armed"
           /\ Len(wait.messages) < wait.effectiveMaxMessages
           /\ Len(wait'.messages) = wait.effectiveMaxMessages)
          => (/\ wait'.sub = "closed"
              /\ wait'.loop = "done"
              /\ wait'.race = "messages"
              /\ wait'.timer = "armed"
              /\ Resumable(wait'))]_vars
    /\ []((/\ wait.tool = "nats_subscribe"
           /\ wait.pc = "returned"
           /\ wait.effectiveMaxMessages >= 1
           /\ wait.received >= wait.effectiveMaxMessages)
          => wait.result = Result("ok", FirstItems(wait.effectiveMaxMessages)))

\* max_messages 2, four messages routed: the call has returned the first two
\* and its timer has not fired
C16_Witness ==
    /\ wait.tool = "nats_subscribe"
    /\ wait.pc = "returned"
    /\ wait.max_messages = 2
    /\ published = 4
    /\ wait.result = Result("ok", <<1, 2>>)
    /\ wait.timer = "armed"

\* C17: when the timer fires while the call still waits with an empty
\* buffer, the timer arm settles the race (timedOut) and the source is
\* stopped in that step; the call then returns a non-error result with an
\* empty item list, and its source is stopped when it returns.
C17_TimeoutWithNoItems ==
    /\ [][(/\ wait.pc = "racing"
           /\ wait.race = "pending"
           /\ wait.messages = <<>>
           /\ wait.timer = "armed"
           /\ wait'.timer = "fired")
          => (wait'.race = "timer" /\ wait'.sub = "closed")]_vars
    /\ []((wait.pc = "returned" /\ wait.race = "timer" /\ wait.received = 0)
          => (wait.result = Result("ok", <<>>) /\ wait.sub = "closed"))

\* timeout 500, nothing routed: the call has returned the empty list
C17_Witness ==
    /\ wait.tool = "nats_subscribe"
    /\ wait.timeout = 500
    /\ wait.pc = "returned"
    /\ published = 0
    /\ wait.race = "timer"
    /\ wait.timer = "fired"
    /\ wait.result = Result("ok", <<>>)
    /\ wait.sub = "closed"

\* C18: whatever max_messages was requested, the number of items a bounded
\* wait returns does not exceed the effective maximum, and the effective
\* maximum does not exceed MAX_MESSAGES.
C18_ItemsWithinEffectiveMaximum ==
    (wait.pc = "returned" /\ wait.result.kind = "ok") =>
        /\ wait.effectiveMaxMessages <= MAX_MESSAGES
        /\ Len(wait.result.items) <= wait.effectiveMaxMessages

\* what a call does and returns, without the arguments it was given
Observable(w) == [w EXCEPT !.timeout = 0, !.max_messages = 0]

\* C19: a call with an argument above its ceiling and the call with the
\* same request at the ceiling (60000 / 200 against 30000 / 100), given the
\* same messages and timers, are in the same state at every moment: same
\* timer delay, same subscription options, same buffer, same result.
C19_ClampedTwinsAgree ==
    Observable(wait) = Observable(twin)

\* 60000 / 200 against 30000 / 100: both calls have returned 100 items
C19_Witness ==
    /\ wait.timeout = 2 * MAX_TIMEOUT_MS
    /\ wait.max_messages = 2 * MAX_MESSAGES
    /\ twin.timeout = MAX_TIMEOUT_MS
    /\ twin.max_messages = MAX_MESSAGES
    /\ wait.pc = "returned"
    /\ twin.pc = "returned"
    /\ Len(wait.result.items) = MAX_MESSAGES
    /\ wait.delay = MAX_TIMEOUT_MS

\* C20: the race is settled once: the arm that settled it stays the winner
\* whatever the other arm does later, and once the handler has returned, a
\* late timer or a late end of the loop changes neither the result nor the
\* buffer nor the source, only its own timer or loop state.
C20_CompletesOnce ==
    /\ [][wait.race \in {"timer", "messages"} => wait'.race = wait.race]_vars
    /\ [][wait.pc = "returned"
          => wait' = [wait EXCEPT !.timer = wait'.timer,
                                  !.loop = wait'.loop]]_vars

\* the collecting arm won and the call returned; the timer has fired since
C20_Witness ==
    /\ wait.tool = "nats_subscribe"
    /\ wait.pc = "returned"
    /\ wait.race = "messages"
    /\ wait.timer = "fired"
    /\ Len(wait.result.items) = 1

\* C21: the timer callback stops the source in the step in which it fires,
\* whatever the buffer holds; from that step on nothing is appended to the
\* buffer, and a call that returns on the timeout path returns the buffer
\* as it was when the timer fired, however many messages were routed later.
C21_NothingAfterTimeout ==
    /\ [][(wait.timer = "armed" /\ wait'.timer = "fired")
          => wait'.sub = "closed"]_vars
    /\ [][wait.timer = "fired" => wait'.messages = wait.messages]_vars
    /\ []((wait.pc = "returned" /\ wait.race = "timer")
          => (/\ wait.result.items = wait.messages
              /\ Len(wait.result.items) = wait.received))

\* one update of the bucket was watched, the timer fired, a second update
\* came afterwards: the call has returned the first one only
C21_Witness ==
    /\ wait.tool = "nats_kv_watch"
    /\ wait.pc = "returned"
    /\ wait.race = "timer"
    /\ wait.timer = "fired"
    /\ Len(wait.result.items) = 1
    /\ published = wait.result.items[1] + 1

\* C22: in every state of a call the buffer is a run of consecutive
\* messages in routing order that starts with the first one the source
\* delivered (for nats_subscribe, message 1), and the returned items are
\* such a run too: nothing reordered, duplicated or skipped.
C22_ItemsArePrefixOfDelivered ==
    /\ \A i \in 1..Len(wait.messages) :
          /\ wait.messages[i] = wait.messages[1] + i - 1
          /\ wait.messages[i] <= published
    /\ (wait.tool = "nats_subscribe" /\ wait.messages # <<>>)
          => wait.messages[1] = 1
    /\ Len(wait.messages) = wait.received
    /\ wait.pc = "returned" =>
          \E n \in 0..Len(wait.messages) :
              wait.result.items = SubSeq(wait.messages, 1, n)

\* three messages routed, max_messages 100: the timer fired and the call
\* has returned all three in order
C22_Witness ==
    /\ wait.tool = "nats_subscribe"
    /\ wait.max_messages = MAX_MESSAGES
    /\ wait.pc = "returned"
    /\ wait.race = "timer"
    /\ wait.result = Result("ok", <<1, 2, 3>>)

AsyncReturns ==
    \/ asyncPc = "awaitJsm" /\ asyncPc' = "idle"
    \/ asyncPc = "idle" /\ asyncPc' = "idle" /\ asyncRet' # asyncRet

\* C24: a bundle returned by getNatsConnectionAsync holds three handles
\* that are present and belong to the session that is state.nc at the
\* moment of the return, whatever Disconnect, Reconnect or close was
\* processed while the call was suspended (stated for runs with a single
\* initialize, so that only these events interleave with the call).
C24_AsyncBundleIsWhole ==
    [][(AsyncReturns /\ asyncRet'.kind = "bundle" /\ nextSess' = 1)
       => (/\ nc' # NullNc
           /\ asyncRet'.nc = nc'
           /\ asyncRet'.js.kind = "js"
           /\ asyncRet'.js.sess = nc'
           /\ asyncRet'.jsm.kind = "jsm"
           /\ asyncRet'.jsm.sess = nc')]_vars

\* a call of getNatsConnection fails with "JetStreamManager not available.
\* Try again shortly." and neither initialize nor close is in progress
RetryAdvised ==
    /\ SyncOutcome = "jsmUnavailable"
    /\ createPc = "idle"
    /\ closePc = "idle"

\* C25: a caller told to try again shortly, who keeps calling
\* getNatsConnection, does not get that failure for ever: eventually a call
\* returns a bundle, unless a Disconnect, a close or an initialize came in
\* between.
C25_RetryEventuallySucceeds ==
    RetryAdvised ~> ~RetryAdvised

\* C26: a Disconnect or Reconnect notification of a session that is not the
\* current state.nc, when its listener takes it, changes none of
\* isConnected, reconnectCount, lastReconnectTime, and none of the cached
\* handles.
C26_OnlyCurrentSessionMutates ==
    [][\A s \in Sessions :
          (/\ s # nc
           /\ Consumed(s, "disconnect") \/ Consumed(s, "reconnect"))
          => UNCHANGED <<nc, js, jsm, isConnected, reconnectCount,
                         lastReconnectTime>>]_vars

\* createNatsConnection throws in this step, and no session was installed
\* when it was called (it is the first initialize that got as far)
FirstInitializeFails ==
    /\ createPc' = "idle"
    /\ \/ createPc = "connecting" /\ nextSess = 0
       \/ createPc = "jsm" /\ nextSess = 1

\* C27: when the first createNatsConnection fails, at connect() or at
\* jetstreamManager(), the state is what it was before the call: state.nc
\* is absent and isConnected is false, so the next getNatsConnection fails
\* with the not-initialized error.
C27_FailedInitializeLeavesNoSession ==
    [][FirstInitializeFails
       => (/\ nc' = NullNc
           /\ ~isConnected'
           /\ SyncOutcome' = "notInitialized")]_vars

\* C28: in every state of the supervisor lastReconnectTime is null exactly
\* when reconnectCount is 0, and so is the time of the snapshot
\* getConnectionHealth returns.
C28_TimeIffCounted ==
    /\ (lastReconnectTime = NullTime) <=> (reconnectCount = 0)
    /\ (getConnectionHealth.lastReconnectTime = NoIsoString)
          <=> (getConnectionHealth.reconnectCount = 0)

\* a session that reconnected was closed: the snapshot still carries its
\* count and its time
C28_Witness ==
    /\ Closed
    /\ getConnectionHealth.reconnectCount = 1
    /\ getConnectionHealth.lastReconnectTime # NoIsoString
    /\ ~getConnectionHealth.connected

\* the rule r of assessHealth fires for the consumer c
Fires(r, c) ==
    \/ r = "paused" /\ c.paused /\ c.pending > 0
    \/ r = "lag" /\ c.lag > hLag
    \/ r = "ack" /\ c.ack_pending > hAck

\* the place of an issue in the order "by consumer, then paused, lag, ack"
IssueOrder(is) ==
    3 * is.name + (CASE is.rule = "paused" -> 1
                     [] is.rule = "lag" -> 2
                     [] OTHER -> 3)

\* C29: for a non-empty consumer list the status is healthy exactly when
\* no issue is returned; every issue names a consumer of the list and a
\* rule that fires for it, every rule that fires has its issue, and the
\* issues come by consumer and, for one consumer, as paused, lag, ack.
C29_IssuesMatchRulesInOrder ==
    (hPc = "done" /\ hConsumers # <<>>) =>
        /\ (hResult.status = "healthy") <=> (hResult.issues = <<>>)
        /\ \A k \in 1..Len(hResult.issues) :
               /\ hResult.issues[k].rule \in {"paused", "lag", "ack"}
               /\ hResult.issues[k].name \in 1..Len(hConsumers)
               /\ Fires(hResult.issues[k].rule,
                        hConsumers[hResult.issues[k].name])
        /\ \A i \in 1..Len(hConsumers) :
               \A r \in {"paused", "lag", "ack"} :
                   Fires(r, hConsumers[i]) => HasIssue(r, hConsumers[i])
        /\ \A k \in 1..(Len(hResult.issues) - 1) :
               IssueOrder(hResult.issues[k]) < IssueOrder(hResult.issues[k + 1])

\* the first consumer exceeds the ack-pending threshold only, the second
\* is paused with pending messages and fires all three rules
C29_Witness ==
    /\ hPc = "done"
    /\ Len(hConsumers) = 2
    /\ hResult.status = "unhealthy"
    /\ Len(hResult.issues) = 4
    /\ hResult.issues[1].rule = "ack"
    /\ hResult.issues[2].rule = "paused"
    /\ hResult.issues[3].rule = "lag"
    /\ hResult.issues[4].rule = "ack"

\* C30: a nats_kv_create call reports "Created KV bucket" only for a bucket
\* that did not exist when it reports it, so of the calls made for one
\* bucket name at most one reports it, and none does for a bucket that was
\* there from the start.
C30_CreatedOnlyOnce ==
    /\ [][\A p \in Callers :
              (kvResult[p] # "created" /\ kvResult'[p] = "created")
              => ~kvExists[kvBucket[p]]]_vars
    /\ [](\A p, q \in Callers :
              (/\ p # q
               /\ kvBucket[p] = kvBucket[q]
               /\ kvResult[p] = "created")
              => kvResult[q] # "created")

====
